---- MODULE Spec2Model ----
(***************************************************************************)
(* Model of the battery-cell monitoring scripts.                           *)
(*                                                                         *)
(*   src/cell_main.py  the four-section suite (Dashboard, Task Manager,    *)
(*                     Real-time Application, Performance & Graphs)        *)
(*   src/main.py       the sidebar dashboard                               *)
(*                                                                         *)
(* Numbers.  The code works on floats rounded to a fixed number of         *)
(* decimals; the model keeps them as scaled integers:                      *)
(*   raw samples        1e-4 units          (3.3 V  = 33000)               *)
(*   voltage, current   hundredths          (3.3 V  = 330, 1.0 A = 100)    *)
(*   temperature        tenths              (25 C   = 250)                 *)
(*   capacity           hundredths of a Wh                                 *)
(* round(x, n) is Python's round-half-even, taken on the decimal value:    *)
(* off a tie it is the nearest value, as in the code; at an exact decimal  *)
(* tie the code's result is the neighbour the float's last bit selects,    *)
(* and the properties below are stated so that either neighbour meets      *)
(* them.  A mean is kept as the exact fraction [num, den]; the last-bit    *)
(* effect of the order of float additions is not represented.              *)
(*                                                                         *)
(* Strings that the code converts with lower()/upper()/strip() are tuples  *)
(* of ASCII codes, so the conversions are computed, not assumed.           *)
(*                                                                         *)
(* Randomness.  The module-level generator of `random` is a deterministic  *)
(* stream fixed by its seed.  The model keeps the stream as a cyclic tape  *)
(* of TapeLen draws, each one of RandomLevels equally spaced values of     *)
(* random() in [0, 1); the tape is chosen freely in Init and every call of *)
(* random.uniform consumes its head.                                      *)
(***************************************************************************)
EXTENDS Integers, Sequences, FiniteSets, TLC

VARIABLES
    script,          \* which script `streamlit run` was given
    section,         \* cell_main.py: value of the sidebar radio
    pc,              \* position of the running script
    rng,             \* state of the random generator (the tape, head first)
    selectors,       \* main.py: values of the sidebar selectboxes cell_0..
    cell_selection,  \* the selection handed to the generator in this run
    mode,            \* the operating mode of this run
    df,              \* the snapshot on display (sequence of readings)
    metrics,         \* what show_metrics displayed, or None
    message,         \* st.info / st.warning / st.success of this run
    error,           \* the exception that ended the run, or "none"
    i,               \* realtime_application: completed iterations of the loop
    gen_calls,       \* realtime_application: calls of generate_cell_data so far
    records,         \* performance_and_graphs: the records list
    mode_idx,        \* performance_and_graphs: position of the outer loop
    t                \* performance_and_graphs: position of the inner loop

vars == <<script, section, pc, rng, selectors, cell_selection, mode, df,
          metrics, message, error, i, gen_calls, records, mode_idx, t>>

-----------------------------------------------------------------------------
(* Bounds of the model *)

MaxCells == 2        \* dashboard: num_cells ranges over 1..MaxCells
MaxSelectors == 2    \* main.py: sidebar selectboxes modelled
RandomLevels == 3    \* random() takes the values k / RandomLevels, k < RandomLevels
TapeLen == 2         \* period of the random stream

(* Program constants *)

RealtimeIterations == 20
StepsPerMode == 10

None == "None"

-----------------------------------------------------------------------------
(* Strings with case: tuples of ASCII codes *)

LFP == <<76, 70, 80>>
NMC == <<78, 77, 67>>
NCA == <<78, 67, 65>>
LMO == <<76, 77, 79>>
LTO == <<76, 84, 79>>
NiMH == <<78, 105, 77, 72>>
LeadAcid == <<76, 101, 97, 100, 45, 65, 99, 105, 100>>

lfp == <<108, 102, 112>>
nmc == <<110, 109, 99>>
nca == <<110, 99, 97>>

EmptyStr == <<>>

AVAILABLE_CELL_TYPES == <<LFP, NMC, NCA, LMO, LTO, NiMH, LeadAcid>>

OPERATING_MODES == <<"Idle", "Charging", "Discharging">>

SECTIONS == <<"Dashboard", "Task Manager", "Real-time Application", "Performance & Graphs">>

Range(s) == {s[x] : x \in DOMAIN s}

Lower(s) == [x \in 1..Len(s) |-> IF s[x] \in 65..90 THEN s[x] + 32 ELSE s[x]]

Upper(s) == [x \in 1..Len(s) |-> IF s[x] \in 97..122 THEN s[x] - 32 ELSE s[x]]

RECURSIVE LStrip(_)
LStrip(s) == IF s # <<>> /\ Head(s) \in {9, 10, 13, 32} THEN LStrip(Tail(s)) ELSE s

RECURSIVE RStrip(_)
RStrip(s) ==
    IF s # <<>> /\ s[Len(s)] \in {9, 10, 13, 32} THEN RStrip(SubSeq(s, 1, Len(s) - 1)) ELSE s

Strip(s) == RStrip(LStrip(s))

-----------------------------------------------------------------------------
(* Arithmetic *)

\* round(): x in units of 1/unit-th of the result; ties go to the even neighbour
Round(x, unit) ==
    LET q == x \div unit
        r == x % unit
    IN  IF 2 * r < unit THEN q
        ELSE IF 2 * r > unit THEN q + 1
        ELSE IF q % 2 = 0 THEN q ELSE q + 1

\* the j-th next value of random.random()
Draw(tape, j) == tape[((j - 1) % Len(tape)) + 1]

\* the generator state after n calls of random.random()
Rotate(tape, n) == [x \in 1..Len(tape) |-> tape[((x - 1 + n) % Len(tape)) + 1]]

\* random.uniform(a, b) = a + (b - a) * random(), with random() = k / RandomLevels
Uniform(a, b, k) == a + ((b - a) * k) \div RandomLevels

Tapes == [1..TapeLen -> 0..(RandomLevels - 1)]

-----------------------------------------------------------------------------
(* cell_main.py: generate_cell_data *)

\* variant: the tag is compared in the case the selectbox shows it in
VoltageBaseUpperCase(cell_type) == IF cell_type = LFP THEN 320 ELSE 360

\* variant: the tag is lowered before it is compared
VoltageBaseAnyCase(cell_type) == IF Lower(cell_type) = lfp THEN 320 ELSE 360

\* voltage_base = 3.2 if cell_type == "lfp" else 3.6
VoltageBase(cell_type) == IF cell_type = lfp THEN 320 ELSE 360

\* the voltage of one reading, from the draw k
GenVoltage(base, m, k) ==
    IF m = "Charging" THEN Round(Uniform((base + 10) * 100, (base + 50) * 100, k), 100)
    ELSE IF m = "Discharging" THEN Round(Uniform((base - 50) * 100, (base - 10) * 100, k), 100)
    ELSE Round(Uniform((base - 5) * 100, (base + 5) * 100, k), 100)

\* the current of one reading, from the draw k (no draw is consumed in the else branch)
GenCurrent(m, k) ==
    IF m = "Charging" THEN Round(Uniform(10000, 50000, k), 100)
    ELSE IF m = "Discharging" THEN Round(Uniform(5000, 30000, k), 100)
    ELSE 0

\* number of random.uniform calls of one loop iteration
DrawsPerReading(m) == IF m \in {"Charging", "Discharging"} THEN 3 ELSE 2

\* temp = round(random.uniform(25, 40), 1)
GenTemp(k) == Round(Uniform(250000, 400000, k), 1000)

\* variant: the product is truncated to 2 decimals
CapacityTruncated(voltage, current) == (voltage * current) \div 100

\* capacity = round(voltage * current, 2)
Capacity(voltage, current) == Round(voltage * current, 100)

\* variant: enumerate without start=1
CellIdZeroBased(idx) == <<"Cell_", idx - 1>>

\* f"Cell_{idx}"
CellId(idx) == <<"Cell_", idx>>

\* one iteration of the loop: the row appended and the generator state after it
GenReading(idx, cell_type, m, tape) ==
    LET base == VoltageBase(cell_type)
        n == DrawsPerReading(m)
        voltage == GenVoltage(base, m, Draw(tape, 1))
        current == GenCurrent(m, Draw(tape, 2))
        temp == GenTemp(Draw(tape, n))
    IN  [row |-> [CellID |-> CellId(idx),
                  Type |-> Upper(cell_type),
                  Mode |-> m,
                  Voltage |-> voltage,
                  Current |-> current,
                  Temp |-> temp,
                  Capacity |-> Capacity(voltage, current)],
         rng |-> Rotate(tape, n)]

RECURSIVE GenRows(_, _, _, _, _)
GenRows(sel, idx, m, tape, data) ==
    IF idx > Len(sel) THEN [df |-> data, rng |-> tape]
    ELSE LET g == GenReading(idx, sel[idx], m, tape)
         IN  GenRows(sel, idx + 1, m, g.rng, Append(data, g.row))

\* for idx, cell_type in enumerate(cell_selection, start=1): ...
generate_cell_data(sel, m, tape) == GenRows(sel, 1, m, tape, <<>>)

-----------------------------------------------------------------------------
(* Aggregation: df[col].mean(), df[col].sum() *)

Column(d, f) == [x \in 1..Len(d) |-> d[x][f]]

RECURSIVE SumSeq(_)
SumSeq(col) == IF col = <<>> THEN 0 ELSE Head(col) + SumSeq(Tail(col))

RECURSIVE RunningAverage(_, _)
RunningAverage(col, acc) ==
    IF col = <<>> THEN acc
    ELSE RunningAverage(Tail(col), [num |-> acc.num + Head(col) * acc.den, den |-> 2 * acc.den])

\* variant: a running average, avg = (avg + x) / 2
MeanRunning(col) ==
    IF col = <<>> THEN [num |-> 0, den |-> 0]
    ELSE RunningAverage(Tail(col), [num |-> Head(col), den |-> 1])

Mean(col) == [num |-> SumSeq(col), den |-> Len(col)]

Aggregate(d) ==
    [AvgVoltage |-> Mean(Column(d, "Voltage")),
     AvgCurrent |-> Mean(Column(d, "Current")),
     AvgTemp |-> Mean(Column(d, "Temp")),
     TotalCapacity |-> SumSeq(Column(d, "Capacity"))]

\* f"{x:.2f}" of the fraction num/den, in the units of num
Format(q) == Round(q.num, q.den)

\* the four st.metric values; an empty frame has no columns, so df[...] raises
\* KeyError before anything is shown
show_metrics(d) ==
    IF d = <<>> THEN [error |-> "KeyError", shown |-> <<>>]
    ELSE LET a == Aggregate(d)
         IN  [error |-> "none",
              shown |-> <<[AvgVoltage |-> Format(a.AvgVoltage),
                           AvgCurrent |-> Format(a.AvgCurrent),
                           AvgTemp |-> Format(a.AvgTemp),
                           TotalCapacity |-> a.TotalCapacity]>>]

-----------------------------------------------------------------------------
(* main.py: the sidebar dashboard *)

RECURSIVE SelectNonEmpty(_, _)
\* for i in range(..): if selected: cell_selection.append(selected.lower())
SelectNonEmpty(sels, x) ==
    IF x > Len(sels) THEN <<>>
    ELSE (IF sels[x] # EmptyStr THEN <<Lower(sels[x])>> ELSE <<>>) \o SelectNonEmpty(sels, x + 1)

\* variant: the list is kept as it is
FromKeysKeepAll(s, seen) == s

RECURSIVE FromKeys(_, _)
\* list(dict.fromkeys(...)): the first occurrence of each key, in order
FromKeys(s, seen) ==
    IF s = <<>> THEN <<>>
    ELSE IF Head(s) \in seen THEN FromKeys(Tail(s), seen)
    ELSE <<Head(s)>> \o FromKeys(Tail(s), seen \cup {Head(s)})

\* [c for c in cell_selection if c.strip() != ""]
NonBlank(s) == SelectSeq(s, LAMBDA c : Strip(c) # EmptyStr)

\* lines 23-30: the selection the script works on
SidebarSelection(sels) == FromKeys(NonBlank(SelectNonEmpty(sels, 1)), {})

\* variant: the guard is left out
SidebarAcceptsAll(sel) == TRUE

\* if not cell_selection: warning, else: generate
SidebarAccepts(sel) == sel # <<>>

\* one iteration of the loop of lines 38-51
SidebarReading(idx, cell_type, tape) ==
    LET voltage == VoltageBase(cell_type)
        current == Round(Uniform(5000, 50000, Draw(tape, 1)), 100)
        temp == GenTemp(Draw(tape, 2))
    IN  [row |-> [CellID |-> CellId(idx),
                  Type |-> Upper(cell_type),
                  Voltage |-> voltage,
                  Current |-> current,
                  Temp |-> temp,
                  Capacity |-> Capacity(voltage, current)],
         rng |-> Rotate(tape, 2)]

RECURSIVE SidebarRows(_, _, _, _)
SidebarRows(sel, idx, tape, data) ==
    IF idx > Len(sel) THEN [df |-> data, rng |-> tape]
    ELSE LET g == SidebarReading(idx, sel[idx], tape)
         IN  SidebarRows(sel, idx + 1, g.rng, Append(data, g.row))

SelectorOptions == {EmptyStr} \cup Range(AVAILABLE_CELL_TYPES)

\* a selectbox of the sidebar changes: the script reruns with the button not pressed
SidebarSelect(x, v) ==
    /\ script = "main.py"
    /\ selectors[x] # v
    /\ selectors' = [selectors EXCEPT ![x] = v]
    /\ cell_selection' = SidebarSelection(selectors')
    /\ df' = <<>>
    /\ metrics' = <<>>
    /\ message' = "info"
    /\ error' = "none"
    /\ UNCHANGED <<script, section, pc, rng, mode, i, gen_calls, records, mode_idx, t>>

\* the button is pressed: the script reruns with the button True
SidebarGenerate ==
    /\ script = "main.py"
    /\ LET sel == SidebarSelection(selectors)
       IN  /\ cell_selection' = sel
           /\ IF ~SidebarAccepts(sel)
              THEN /\ message' = "warning"
                   /\ df' = <<>>
                   /\ metrics' = <<>>
                   /\ error' = "none"
                   /\ UNCHANGED rng
              ELSE LET g == SidebarRows(sel, 1, rng, <<>>)
                       shown == show_metrics(g.df)
                   IN  /\ df' = g.df
                       /\ rng' = g.rng
                       /\ metrics' = shown.shown
                       /\ error' = shown.error
                       /\ message' = IF shown.error = "none" THEN "success" ELSE None
    /\ UNCHANGED <<script, section, pc, selectors, mode, i, gen_calls, records, mode_idx, t>>

-----------------------------------------------------------------------------
(* cell_main.py: main() and the four sections *)

REALTIME_SELECTION == <<lfp, nmc, nca>>

\* the state of a run that has displayed nothing yet
Cleared ==
    /\ df' = <<>>
    /\ metrics' = <<>>
    /\ error' = "none"

\* the sidebar radio changes, or the page is rerun: main() dispatches on section.
\* Without a button pressed dashboard() shows the info line, task_manager() the
\* scheduled task, realtime_application() its mode selectbox (index 0) and
\* performance_and_graphs() starts building its records.
Navigate(s) ==
    /\ script = "cell_main.py"
    /\ pc = "idle"
    /\ section' = s
    /\ Cleared
    /\ cell_selection' = <<>>
    /\ mode' = OPERATING_MODES[1]
    /\ records' = <<>>
    /\ i' = 0
    /\ gen_calls' = 0
    /\ IF s = "Performance & Graphs"
       THEN /\ pc' = "perf"
            /\ mode_idx' = 1
            /\ t' = 0
            /\ message' = None
       ELSE /\ pc' = "idle"
            /\ mode_idx' = 0
            /\ t' = 0
            /\ message' = IF s = "Dashboard" THEN "info"
                          ELSE IF s = "Task Manager" THEN "scheduled"
                          ELSE None
    /\ UNCHANGED <<script, rng, selectors>>

\* cell_types.append(cell_type.lower()) for each of the num_cells selectboxes
FormCellTypes(types) == [x \in 1..Len(types) |-> Lower(types[x])]

\* if not cell_types or len(cell_types) == 0: warning; return
DashboardAccepts(cell_types) == cell_types # <<>>

\* "Generate Dashboard" is submitted with num_cells = Len(types) selectboxes
\* holding `types` and the operation mode op.  The submit is taken from the page
\* as dashboard() first renders it; a further submit goes through a rerun
\* (Navigate), which leaves rng as it is and so reaches the same runs.
DashboardSubmit(types, op) ==
    /\ script = "cell_main.py"
    /\ pc = "idle"
    /\ section = "Dashboard"
    /\ message = "info"
    /\ LET cell_types == FormCellTypes(types)
       IN  /\ cell_selection' = cell_types
           /\ mode' = op
           /\ IF ~DashboardAccepts(cell_types)
              THEN /\ message' = "warning"
                   /\ Cleared
                   /\ UNCHANGED rng
              ELSE LET g == generate_cell_data(cell_types, op, rng)
                       shown == show_metrics(g.df)
                   IN  /\ df' = g.df
                       /\ rng' = g.rng
                       /\ metrics' = shown.shown
                       /\ error' = shown.error
                       /\ message' = IF shown.error = "none" THEN "success" ELSE None
    /\ UNCHANGED <<script, section, pc, selectors, i, gen_calls, records, mode_idx, t>>

\* "Execute Task": spinner, sleep, success
ExecuteTask ==
    /\ script = "cell_main.py"
    /\ pc = "idle"
    /\ section = "Task Manager"
    /\ message # "executed"
    /\ message' = "executed"
    /\ UNCHANGED <<script, section, pc, rng, selectors, cell_selection, mode, df, metrics,
                   error, i, gen_calls, records, mode_idx, t>>

\* the mode selectbox of the real-time section changes: rerun, button not pressed
RealtimeSelectMode(m) ==
    /\ script = "cell_main.py"
    /\ pc = "idle"
    /\ section = "Real-time Application"
    /\ mode # m
    /\ mode' = m
    /\ Cleared
    /\ message' = None
    /\ cell_selection' = REALTIME_SELECTION
    /\ i' = 0
    /\ gen_calls' = 0
    /\ UNCHANGED <<script, section, pc, rng, selectors, records, mode_idx, t>>

\* "Start Real-time Monitoring": the run enters the for loop
RealtimeStart ==
    /\ script = "cell_main.py"
    /\ pc = "idle"
    /\ section = "Real-time Application"
    /\ pc' = "rt_generate"
    /\ Cleared
    /\ message' = None
    /\ cell_selection' = REALTIME_SELECTION
    /\ i' = 0
    /\ gen_calls' = 0
    /\ UNCHANGED <<script, section, rng, selectors, mode, records, mode_idx, t>>

\* df = generate_cell_data(cell_selection, mode); show_metrics / table / charts
RealtimeGenerate ==
    /\ pc = "rt_generate"
    /\ LET g == generate_cell_data(cell_selection, mode, rng)
           shown == show_metrics(g.df)
       IN  /\ df' = g.df
           /\ rng' = g.rng
           /\ metrics' = shown.shown
           /\ error' = shown.error
    /\ gen_calls' = gen_calls + 1
    /\ pc' = "rt_sleep"
    /\ UNCHANGED <<script, section, selectors, cell_selection, mode, message, i, records,
                   mode_idx, t>>

\* variant: the loop stops one iteration early
RealtimeLoopStopsEarly(done) == done + 1 < RealtimeIterations

\* for _ in range(20): has the loop another iteration after `done` of them
RealtimeLoopContinues(done) == done < RealtimeIterations

\* time.sleep(1), then the loop head
RealtimeSleep ==
    /\ pc = "rt_sleep"
    /\ i' = i + 1
    /\ pc' = IF RealtimeLoopContinues(i + 1) THEN "rt_generate" ELSE "rt_end"
    /\ UNCHANGED <<script, section, rng, selectors, cell_selection, mode, df, metrics,
                   message, error, gen_calls, records, mode_idx, t>>

\* st.success("Real-time monitoring session completed.")
RealtimeComplete ==
    /\ pc = "rt_end"
    /\ message' = "completed"
    /\ pc' = "idle"
    /\ UNCHANGED <<script, section, rng, selectors, cell_selection, mode, df, metrics,
                   error, i, gen_calls, records, mode_idx, t>>

\* variant: the inner loop runs over 0..StepsPerMode
NextLoopPosInclusive(mi, ti) ==
    IF ti + 1 <= StepsPerMode THEN [mode_idx |-> mi, t |-> ti + 1]
    ELSE [mode_idx |-> mi + 1, t |-> 0]

\* the loop position after (mi, ti): for mode in modes: for t in range(10)
NextLoopPos(mi, ti) ==
    IF ti + 1 < StepsPerMode THEN [mode_idx |-> mi, t |-> ti + 1]
    ELSE [mode_idx |-> mi + 1, t |-> 0]

\* one iteration of the inner loop of performance_and_graphs
PerfStep ==
    /\ pc = "perf"
    /\ LET m == OPERATING_MODES[mode_idx]
           g == generate_cell_data(REALTIME_SELECTION, m, rng)
           a == Aggregate(g.df)
           nxt == NextLoopPos(mode_idx, t)
       IN  /\ mode' = m
           /\ cell_selection' = REALTIME_SELECTION
           /\ df' = g.df
           /\ rng' = g.rng
           /\ records' = Append(records, [Time |-> t,
                                          Mode |-> m,
                                          AvgVoltage |-> a.AvgVoltage,
                                          AvgCurrent |-> a.AvgCurrent,
                                          AvgTemp |-> a.AvgTemp,
                                          TotalCapacity |-> a.TotalCapacity])
           /\ mode_idx' = nxt.mode_idx
           /\ t' = nxt.t
           /\ pc' = IF nxt.mode_idx > Len(OPERATING_MODES) THEN "idle" ELSE "perf"
    /\ UNCHANGED <<script, section, selectors, metrics, message, error, i, gen_calls>>

-----------------------------------------------------------------------------
(* The two scripts under `streamlit run` *)

\* the state after the first run of the script, no button pressed
Started(name) ==
    /\ script = name
    /\ section = SECTIONS[1]
    /\ pc = "idle"
    /\ rng \in Tapes
    /\ selectors = [x \in 1..MaxSelectors |-> EmptyStr]
    /\ cell_selection = <<>>
    /\ mode = OPERATING_MODES[1]
    /\ df = <<>>
    /\ metrics = <<>>
    /\ message = "info"
    /\ error = "none"
    /\ i = 0
    /\ gen_calls = 0
    /\ records = <<>>
    /\ mode_idx = 0
    /\ t = 0

SuiteInit == Started("cell_main.py")

SidebarInit == Started("main.py")

Init == SuiteInit \/ SidebarInit

DashboardInputs ==
    UNION {[1..n -> Range(AVAILABLE_CELL_TYPES)] : n \in 1..MaxCells}

SuiteNext ==
    \/ \E s \in Range(SECTIONS) : Navigate(s)
    \/ \E types \in DashboardInputs, op \in Range(OPERATING_MODES) : DashboardSubmit(types, op)
    \/ ExecuteTask
    \/ \E m \in Range(OPERATING_MODES) : RealtimeSelectMode(m)
    \/ RealtimeStart
    \/ RealtimeGenerate
    \/ RealtimeSleep
    \/ RealtimeComplete
    \/ PerfStep

SidebarNext ==
    \/ \E x \in 1..MaxSelectors, v \in SelectorOptions : SidebarSelect(x, v)
    \/ SidebarGenerate

Next == SuiteNext \/ SidebarNext

Spec == Init /\ [][Next]_vars

\* The script thread does not stall inside the blocking loop of
\* realtime_application.  The control flow of the loop: a step that moves pc
\* this way is a step of RealtimeGenerate, RealtimeSleep or RealtimeComplete,
\* and each of them is enabled whenever pc is at its position.
RealtimeThreadStep ==
    \/ pc = "rt_generate" /\ pc' = "rt_sleep"
    \/ pc = "rt_sleep" /\ pc' \in {"rt_generate", "rt_end"}
    \/ pc = "rt_end" /\ pc' = "idle"

\* cell_main.py alone, its loop running to the end
SuiteFairSpec == SuiteInit /\ [][SuiteNext]_vars /\ WF_pc(RealtimeThreadStep)

-----------------------------------------------------------------------------
(* generate_cell_data called directly, on tags and modes in any spelling *)

Lfp == <<76, 102, 112>>

GenTags == {lfp, LFP, Lfp, nmc, NMC, LeadAcid}

GenModes == Range(OPERATING_MODES) \cup {"Maintenance"}

GenSelections == UNION {[1..n -> GenTags] : n \in 0..MaxCells}

GenInit ==
    /\ script = "generate_cell_data"
    /\ section = None
    /\ pc = "call"
    /\ rng \in Tapes
    /\ selectors = <<>>
    /\ cell_selection \in GenSelections
    /\ mode \in GenModes
    /\ df = <<>>
    /\ metrics = <<>>
    /\ message = None
    /\ error = "none"
    /\ i = 0
    /\ gen_calls = 0
    /\ records = <<>>
    /\ mode_idx = 0
    /\ t = 0

GenCall ==
    /\ pc = "call"
    /\ LET g == generate_cell_data(cell_selection, mode, rng)
       IN  /\ df' = g.df
           /\ rng' = g.rng
    /\ gen_calls' = gen_calls + 1
    /\ pc' = "returned"
    /\ UNCHANGED <<script, section, selectors, cell_selection, mode, metrics, message,
                   error, i, records, mode_idx, t>>

GenNext == GenCall

SpecGen == GenInit /\ [][GenNext]_vars

-----------------------------------------------------------------------------
(* Properties *)

\* the documented base voltage of a reading's type, in hundredths of a volt
DocBase(type) == IF type = LFP THEN 320 ELSE 360

InRange(x, lo, hi) == lo <= x /\ x <= hi

\* the documented voltage and current bounds of mode m over base b
WithinModeBounds(r, m, b) ==
    /\ m = "Charging" => InRange(r.Voltage, b + 10, b + 50) /\ InRange(r.Current, 100, 500)
    /\ m = "Discharging" => InRange(r.Voltage, b - 50, b - 10) /\ InRange(r.Current, 50, 300)
    /\ m = "Idle" => InRange(r.Voltage, b - 5, b + 5) /\ r.Current = 0

DeclaredTypes == {Upper(Lower(ty)) : ty \in Range(AVAILABLE_CELL_TYPES)}

IsGeneratorRow(r) == "Mode" \in DOMAIN r

\* C1: every reading generate_cell_data produces for a declared cell type and a
\* declared mode has its voltage and current within the bounds of the mode over
\* the base voltage of the type (3.2 for LFP, 3.6 otherwise), current exactly 0.0
\* in Idle, and its temperature in [25, 40].
ReadingsWithinBounds ==
    \A x \in DOMAIN df :
        IsGeneratorRow(df[x]) =>
            /\ df[x].Type \in DeclaredTypes
            /\ df[x].Mode \in Range(OPERATING_MODES)
            /\ WithinModeBounds(df[x], df[x].Mode, DocBase(df[x].Type))
            /\ InRange(df[x].Temp, 250, 400)

ReadingsWithinBoundsWitness ==
    \E x, y \in DOMAIN df :
        /\ IsGeneratorRow(df[x])
        /\ df[x].Type = LFP
        /\ df[x].Mode = "Charging"
        /\ df[x].Voltage < 360
        /\ df[y].Type = Upper(LeadAcid)

\* C2: the generator treats the tag case-insensitively: a tag that spells LFP in
\* any letter case gets base voltage 3.2, every other tag 3.6.
CaseInsensitiveBase ==
    (pc = "returned" /\ mode \in Range(OPERATING_MODES)) =>
        \A x \in DOMAIN df :
            WithinModeBounds(df[x], mode,
                             IF Lower(cell_selection[x]) = lfp THEN 320 ELSE 360)

\* C3: in every reading of every snapshot the capacity is the product of the
\* reading's own rounded voltage and current, rounded to 2 decimals, and it is
\* 0.0 in every Idle reading.
CapacityIsRoundedProduct ==
    \A x \in DOMAIN df :
        LET r == df[x]
            exact == r.Voltage * r.Current     \* in 1e-4 Wh
        IN  /\ 100 * r.Capacity - exact <= 50
            /\ exact - 100 * r.Capacity <= 50
            /\ (IsGeneratorRow(r) /\ r.Mode = "Idle") => r.Capacity = 0

CapacityIsRoundedProductWitness ==
    /\ \E x \in DOMAIN df :
        /\ IsGeneratorRow(df[x])
        /\ df[x].Mode = "Discharging"
        /\ (df[x].Voltage * df[x].Current) % 100 > 50

\* C4: for every sequence of n tags (duplicates allowed) and every mode the
\* generator returns n readings, the i-th with Cell ID "Cell_i", the type of the
\* i-th tag and the mode of the call.
OneReadingPerTagInOrder ==
    pc = "returned" =>
        /\ Len(df) = Len(cell_selection)
        /\ \A x \in DOMAIN df :
            /\ df[x].CellID = <<"Cell_", x>>
            /\ df[x].Type = Upper(cell_selection[x])
            /\ df[x].Mode = mode

OneReadingPerTagInOrderWitness ==
    /\ pc = "returned"
    /\ Len(df) = 2
    /\ cell_selection[1] = cell_selection[2]
    /\ df[2].CellID = <<"Cell_", 2>>

NonEmptySelectors == {x \in DOMAIN selectors : selectors[x] # EmptyStr}

SidebarGenerated == script = "main.py" /\ message = "success"

\* C5 as stated: the generated snapshot has one reading per selector holding a
\* non-empty cell type, also when several selectors hold the same type.
SnapshotLenIsNonEmptySelectors ==
    SidebarGenerated => Len(df) = Cardinality(NonEmptySelectors)

\* C5: the generated snapshot has one reading per distinct non-empty cell type
\* held by the selectors, in the order of first selection; a type held by
\* several selectors yields one reading.
SnapshotLenIsDistinctTypes ==
    SidebarGenerated =>
        /\ Len(df) = Cardinality({selectors[x] : x \in NonEmptySelectors})
        /\ \A x, y \in DOMAIN df : x # y => df[x].Type # df[y].Type
        /\ \A x \in NonEmptySelectors : \E y \in DOMAIN df : df[y].Type = Upper(selectors[x])

SnapshotLenIsDistinctTypesWitness ==
    /\ SidebarGenerated
    /\ Cardinality(NonEmptySelectors) = 2
    /\ selectors[1] = selectors[2]
    /\ Len(df) = 1

PerfDone == section = "Performance & Graphs" /\ pc = "idle"

\* C6 as stated: the series built by performance_and_graphs has exactly 20
\* records, the first 10 Charging with times 0..9, the next 10 Discharging with
\* times 0..9.
PerfSeriesHasTwentyRecords ==
    PerfDone =>
        /\ Len(records) = 20
        /\ \A x \in 1..10 : records[x].Mode = "Charging" /\ records[x].Time = x - 1
        /\ \A x \in 11..20 : records[x].Mode = "Discharging" /\ records[x].Time = x - 11

\* C6: the series holds, for each mode of OPERATING_MODES = [Idle, Charging,
\* Discharging] in order, 10 contiguous records with times 0..9 ascending, 30
\* records in all when it is complete.
PerfSeriesModeMajor ==
    /\ \A x \in DOMAIN records :
        /\ (x - 1) \div 10 + 1 \in DOMAIN OPERATING_MODES
        /\ records[x].Mode = OPERATING_MODES[(x - 1) \div 10 + 1]
        /\ records[x].Time = (x - 1) % 10
    /\ PerfDone =>
        /\ Len(records) = 30
        /\ \A x \in 1..10 : records[x].Mode = "Idle" /\ records[x].Time = x - 1
        /\ \A x \in 11..20 : records[x].Mode = "Charging" /\ records[x].Time = x - 11
        /\ \A x \in 21..30 : records[x].Mode = "Discharging" /\ records[x].Time = x - 21

PerfSeriesModeMajorWitness == PerfDone /\ Len(records) = 30

\* C7: a submit with an empty selection shows the warning and generates
\* nothing (no reading, no aggregate, no success message); readings and
\* aggregates exist only for a non-empty selection, and no run ends in the
\* aggregator's failure on an empty snapshot.
EmptySelectionGeneratesNothing ==
    /\ message = "warning" => cell_selection = <<>> /\ df = <<>> /\ metrics = <<>>
    /\ (script = "main.py" /\ NonEmptySelectors = {} /\ message # "info") =>
            message = "warning" /\ df = <<>> /\ metrics = <<>>
    /\ df # <<>> => cell_selection # <<>>
    /\ metrics # <<>> => df # <<>>
    /\ \A x \in DOMAIN records : records[x].AvgVoltage.den > 0
    /\ error = "none"

EmptySelectionGeneratesNothingWitness ==
    /\ script = "main.py"
    /\ message = "warning"
    /\ NonEmptySelectors = {}

Permuted(d, p) == [x \in 1..Len(d) |-> d[p[x]]]

SameFraction(a, b) == a.num * b.den = b.num * a.den

SameAggregate(a, b) ==
    /\ SameFraction(a.AvgVoltage, b.AvgVoltage)
    /\ SameFraction(a.AvgCurrent, b.AvgCurrent)
    /\ SameFraction(a.AvgTemp, b.AvgTemp)
    /\ a.TotalCapacity = b.TotalCapacity

InRealtimeLoop == pc \in {"rt_generate", "rt_sleep", "rt_end"}

RealtimeCounts ==
    /\ pc = "rt_generate" => gen_calls = i /\ i < 20
    /\ pc = "rt_sleep" => gen_calls = i + 1 /\ i < 20
    /\ pc = "rt_end" => gen_calls = 20 /\ i = 20 /\ message # "completed"
    /\ message = "completed" => gen_calls = 20 /\ i = 20 /\ pc = "idle"
    /\ (InRealtimeLoop /\ gen_calls > 0) =>
            /\ Len(df) = 3
            /\ \A x \in DOMAIN df :
                df[x].Mode = mode /\ df[x].Type = Upper(<<lfp, nmc, nca>>[x])

\* C9: once the monitoring is started the loop runs exactly 20 iterations, each
\* generating one 3-reading snapshot for [lfp, nmc, nca] under the mode chosen
\* before the start, each generation followed by the delay; the loop terminates
\* and the completion message appears after the 20th iteration only.
RealtimeRunsTwentyIterations ==
    /\ []RealtimeCounts
    /\ [][InRealtimeLoop => mode' = mode]_vars
    /\ [][pc = "rt_generate" => pc' = "rt_sleep"]_vars
    /\ (pc = "rt_generate" /\ i = 0) ~> (message = "completed")

RealtimeRunsTwentyIterationsWitness ==
    /\ message = "completed"
    /\ gen_calls = 20
    /\ mode = "Discharging"

\* C10: the generator fails on no tag: a mode other than "Charging" and
\* "Discharging" is treated as Idle (current 0.0, capacity 0.0, voltage within
\* 0.05 of the base) and a cell type other than the exact string "lfp" gets base
\* voltage 3.6.
UnknownTagsFallBack ==
    pc = "returned" =>
        /\ error = "none"
        /\ Len(df) = Len(cell_selection)
        /\ \A x \in DOMAIN df :
            LET b == IF cell_selection[x] = lfp THEN 320 ELSE 360
                m == IF mode \in {"Charging", "Discharging"} THEN mode ELSE "Idle"
            IN  /\ WithinModeBounds(df[x], m, b)
                /\ m = "Idle" => df[x].Capacity = 0

UnknownTagsFallBackWitness ==
    /\ pc = "returned"
    /\ mode = "Maintenance"
    /\ Len(df) = 2
    /\ cell_selection[1] = LFP
    /\ cell_selection[2] = lfp
    /\ df[1].Voltage > df[2].Voltage + 10

====
